---- MODULE Spec2Model ----
(***************************************************************************)
(* Tool-augmented chat orchestration of duongnghia222/OnBehalf.            *)
(*                                                                         *)
(*   MCPClient   (mcp_client/mcp-client/client.py): process_query,         *)
(*               _build_api_messages, chat_loop                            *)
(*   ChatSession (chat_with_gpt/chat_with_gpt.py): chat, handle_tool_calls *)
(*                                                                         *)
(* Python values are modelled as follows.  A dict is a record whose        *)
(* DOMAIN is the dict's key set, so `"tool_calls" in msg` is               *)
(* "tool_calls" \in DOMAIN msg.  A str is a TLA+ string and + / join are   *)
(* \o.  An optional str (None or a str) is <<>> or <<s>>.  A tool call id  *)
(* is a natural number; the completion service hands out fresh ids.        *)
(***************************************************************************)
EXTENDS Naturals, Sequences, FiniteSets, TLC

\* ------------------------------------------------------------------ bounds
\* user turns started in one session
MaxTurns == 2
\* tool call ids the completion service issues in one session
MaxCalls == 2
\* length of an arbitrary stored history handed to _build_api_messages
MaxLen == 3
\* tool call ids occurring in an arbitrary stored history
MaxIds == 2

\* ------------------------------------------------------- Python helpers
None == <<>>
Some(s) == <<s>>

\* `x or ""` for an optional str x
OrEmpty(x) == IF x = None THEN "" ELSE x[1]

\* truthiness of an optional str: None and "" are falsy
Truthy(x) == x # None /\ x[1] # ""

RECURSIVE JoinFrom(_, _)
JoinFrom(parts, i) ==
    IF i > Len(parts) THEN ""
    ELSE IF i = Len(parts) THEN parts[i]
    ELSE parts[i] \o "\n" \o JoinFrom(parts, i + 1)

\* "\n".join(parts)
JoinLines(parts) == JoinFrom(parts, 1)

\* json.loads on the argument strings the completion service may send: "{}" is an
\* object, "[1]" is JSON but no object, "{bad" is no JSON.  repr is str() of the
\* parsed value, or of the exception raised.
ArgStrings == {"{}", "{bad"}
json_loads(s) ==
    IF s = "{}" THEN [raised |-> FALSE, is_dict |-> TRUE, repr |-> "{}"]
    ELSE IF s = "[1]" THEN [raised |-> FALSE, is_dict |-> FALSE, repr |-> "[1]"]
    ELSE [raised |-> TRUE, is_dict |-> FALSE, repr |-> "JSONDecodeError"]

\* ------------------------------------------------- messages of a history
UserMsg(text) == [role |-> "user", content |-> text]
SystemMsg(text) == [role |-> "system", content |-> text]

\* one entry of assistant_data["tool_calls"]
ToolCallData(tc) ==
    [id |-> tc.id, type |-> tc.type,
     function |-> [name |-> tc.function.name, arguments |-> tc.function.arguments]]

\* assistant_data of process_query: tool_calls is set only for a non-empty batch
assistant_data(assistant_message) ==
    IF assistant_message.tool_calls # <<>>
    THEN [role |-> "assistant", content |-> OrEmpty(assistant_message.content),
          tool_calls |-> [i \in 1..Len(assistant_message.tool_calls) |->
                             ToolCallData(assistant_message.tool_calls[i])]]
    ELSE [role |-> "assistant", content |-> OrEmpty(assistant_message.content)]

\* tool_message that does not copy the id of the call
tool_message_noId(tool_call, content) ==
    [role |-> "tool", tool_call_id |-> 0,
     name |-> tool_call.function.name, content |-> content]

\* the tool response process_query stores for tool_call
tool_message(tool_call, content) ==
    [role |-> "tool", tool_call_id |-> tool_call.id,
     name |-> tool_call.function.name, content |-> content]

\* final_message that also stores the tool calls of the follow-up response
final_message_withCalls(final_response) ==
    [role |-> "assistant", content |-> OrEmpty(final_response.content),
     tool_calls |-> final_response.tool_calls]

\* the message process_query stores for the follow-up response
final_message(final_response) ==
    [role |-> "assistant", content |-> OrEmpty(final_response.content)]

\* a tool call as the completion service returns it
ToolCall(id, name, arguments) ==
    [id |-> id, type |-> "function", function |-> [name |-> name, arguments |-> arguments]]

\* ------------------------------------------------ _build_api_messages
\* pending_tool_calls is a dict: a sequence of [id, has_response] entries in
\* insertion order; assigning an existing key keeps its place.
PendingHas(pending, id) == \E k \in 1..Len(pending) : pending[k].id = id

PendingSet(pending, id, v) ==
    IF PendingHas(pending, id)
    THEN [k \in 1..Len(pending) |->
            IF pending[k].id = id THEN [id |-> id, has_response |-> v] ELSE pending[k]]
    ELSE Append(pending, [id |-> id, has_response |-> v])

\* MarkPending written with setdefault: an id that is already a key keeps its value
RECURSIVE MarkPending_setdefault(_, _, _)
MarkPending_setdefault(pending, calls, i) ==
    IF i > Len(calls) THEN pending
    ELSE MarkPending_setdefault(
             IF PendingHas(pending, calls[i].id) THEN pending
             ELSE PendingSet(pending, calls[i].id, FALSE), calls, i + 1)

RECURSIVE MarkPending(_, _, _)
MarkPending(pending, calls, i) ==
    IF i > Len(calls) THEN pending
    ELSE MarkPending(PendingSet(pending, calls[i].id, FALSE), calls, i + 1)

\* BuildStep that passes only user messages through, forgetting `or role == "system"`
BuildStep_userOnly(acc, msg) ==
    IF msg.role = "user"
    THEN [api |-> Append(acc.api, msg), pending |-> acc.pending]
    ELSE IF msg.role = "assistant"
    THEN [api |-> Append(acc.api, msg),
          pending |-> IF "tool_calls" \in DOMAIN msg
                      THEN MarkPending(acc.pending, msg.tool_calls, 1)
                      ELSE acc.pending]
    ELSE IF msg.role = "tool"
    THEN IF PendingHas(acc.pending, msg.tool_call_id)
         THEN [api |-> Append(acc.api, msg),
               pending |-> PendingSet(acc.pending, msg.tool_call_id, TRUE)]
         ELSE acc
    ELSE acc

\* BuildStep that copies every tool message
BuildStep_anyTool(acc, msg) ==
    IF msg.role = "user" \/ msg.role = "system"
    THEN [api |-> Append(acc.api, msg), pending |-> acc.pending]
    ELSE IF msg.role = "assistant"
    THEN [api |-> Append(acc.api, msg),
          pending |-> IF "tool_calls" \in DOMAIN msg
                      THEN MarkPending(acc.pending, msg.tool_calls, 1)
                      ELSE acc.pending]
    ELSE IF msg.role = "tool"
    THEN [api |-> Append(acc.api, msg),
          pending |-> PendingSet(acc.pending, msg.tool_call_id, TRUE)]
    ELSE acc

\* one iteration of `for msg in self.messages` on the pair (api_messages, pending_tool_calls)
BuildStep(acc, msg) ==
    IF msg.role = "user" \/ msg.role = "system"
    THEN [api |-> Append(acc.api, msg), pending |-> acc.pending]
    ELSE IF msg.role = "assistant"
    THEN [api |-> Append(acc.api, msg),
          pending |-> IF "tool_calls" \in DOMAIN msg
                      THEN MarkPending(acc.pending, msg.tool_calls, 1)
                      ELSE acc.pending]
    ELSE IF msg.role = "tool"
    THEN IF PendingHas(acc.pending, msg.tool_call_id)
         THEN [api |-> Append(acc.api, msg),
               pending |-> PendingSet(acc.pending, msg.tool_call_id, TRUE)]
         ELSE acc
    ELSE acc

RECURSIVE BuildLoop(_, _, _)
BuildLoop(msgs, i, acc) ==
    IF i > Len(msgs) THEN acc
    ELSE BuildLoop(msgs, i + 1, BuildStep(acc, msgs[i]))

BuildScan(msgs) == BuildLoop(msgs, 1, [api |-> <<>>, pending |-> <<>>])

\* missing_responses: the ids whose entry is still False, in dict order
RECURSIVE MissingFrom(_, _)
MissingFrom(pending, k) ==
    IF k > Len(pending) THEN <<>>
    ELSE (IF pending[k].has_response THEN <<>> ELSE <<pending[k].id>>)
         \o MissingFrom(pending, k + 1)

missing_responses(msgs) == MissingFrom(BuildScan(msgs).pending, 1)

\* lines 201-202: the warning printed, None when missing_responses is empty
Warning(msgs) ==
    IF missing_responses(msgs) # <<>> THEN Some(missing_responses(msgs)) ELSE None

InSeq(x, s) == \E k \in 1..Len(s) : s[k] = x

\* KeepMsg with all() written for any(): drops a message only when its whole batch is missing
KeepMsg_all(msg, missing) ==
    \/ msg.role # "assistant"
    \/ "tool_calls" \notin DOMAIN msg
    \/ ~ \A k \in 1..Len(msg.tool_calls) : InSeq(msg.tool_calls[k].id, missing)

\* the condition of the list comprehension that removes orphaned assistant messages
KeepMsg(msg, missing) ==
    \/ msg.role # "assistant"
    \/ "tool_calls" \notin DOMAIN msg
    \/ ~ \E k \in 1..Len(msg.tool_calls) : InSeq(msg.tool_calls[k].id, missing)

\* FilterKept that puts each kept message in front of the ones kept before it
RECURSIVE FilterKept_front(_, _, _)
FilterKept_front(api, missing, i) ==
    IF i > Len(api) THEN <<>>
    ELSE FilterKept_front(api, missing, i + 1)
         \o (IF KeepMsg(api[i], missing) THEN <<api[i]>> ELSE <<>>)

RECURSIVE FilterKept(_, _, _)
FilterKept(api, missing, i) ==
    IF i > Len(api) THEN <<>>
    ELSE (IF KeepMsg(api[i], missing) THEN <<api[i]>> ELSE <<>>)
         \o FilterKept(api, missing, i + 1)

_build_api_messages(msgs) ==
    LET scan == BuildScan(msgs)
        missing == MissingFrom(scan.pending, 1)
    IN  IF missing # <<>> THEN FilterKept(scan.api, missing, 1) ELSE scan.api

\* ------------------------------------------------------------- MCPClient
VARIABLES
    messages,      \* self.messages
    api_messages,  \* the local api_messages of process_query: the last snapshot built
    pc,            \* where the program is.  MCPClient: "connect" (main awaiting
                   \* connect_to_server), "input" (chat_loop at input()),
                   \* "list_tools", "completion1", "tool_loop", "completion2" (awaiting
                   \* that call), "quit", "aborted", "connect_failed" (main about to
                   \* run its finally clause), "exited".  ChatSession: "chat_input" (main at input()),
                   \* "chat_completion1", "chat_completion2", "chat_exit", "chat_crashed"
    query,         \* the line chat_loop read last
    tool_calls,    \* assistant_message.tool_calls of the turn's first response
    idx,           \* position of the `for tool_call in ...` loop (1-based)
    final_text,    \* the local final_text
    ret,           \* what process_query returned last: None or Some(str)
    sent,          \* the arguments of the last completions.create call: None or Some([messages, tools])
    next_id,       \* the next tool call id the completion service issues
    turn,          \* bookkeeping of the current turn (see NewTurn)
    exit_stack,    \* self.exit_stack: the contexts entered and not yet closed
    server_tools,  \* response.tools of the connected server's list_tools
    http           \* get_crypto_price: the HTTP requests it has made, in order

vars == <<messages, api_messages, pc, query, tool_calls, idx, final_text, ret, sent,
             next_id, turn,
         exit_stack, server_tools, http>>

\* the variables process_query and ChatSession.chat never write
env == <<exit_stack, server_tools, http>>

\* the tools the server script registers with @mcp.tool()
Tool(name) ==
    [name |-> name, description |-> "about " \o name, inputSchema |-> "schema of " \o name]

ServerTools == <<Tool("get_alerts"), Tool("get_forecast"), Tool("get_crypto_price")>>

\* the tool names the completion service asks for
ToolNames == {"get_forecast"}

\* result.content of a call_tool that returned
ToolResults == {"R"}

\* free text a user types (anything but a chat_loop command)
FreeText == {"q"}

\* the lines that reach process_query: free text, and "exit", which chat_loop
\* does not compare the line with
Queries == FreeText \cup {"exit"}

\* a user who typed exit to leave types no further query into that conversation
UserGoesOn(msgs) == \A i \in 1..Len(msgs) : msgs[i] # UserMsg("exit")

\* texts of the completion service's answers
Contents == {None, Some(""), Some("A")}

\* available_tools that leaves out the last discovered tool
available_tools_short(tools) ==
    [i \in 1..(Len(tools) - 1) |->
        [type |-> "function",
         function |-> [name |-> tools[i].name, description |-> tools[i].description,
                       parameters |-> tools[i].inputSchema]]]

\* available_tools of process_query, from the discovery response
available_tools(tools) ==
    [i \in 1..Len(tools) |->
        [type |-> "function",
         function |-> [name |-> tools[i].name, description |-> tools[i].description,
                       parameters |-> tools[i].inputSchema]]]

\* the batches of n tool calls the service may return, with ids first, first+1, ...
Batches(first, n) ==
    {[i \in 1..n |-> ToolCall(first + i - 1, f[i][1], f[i][2])] :
        f \in [1..n -> ToolNames \X ArgStrings]}

\* response.choices[0].message of a completion: a text, a batch of tool calls, or both
Responses(first, maxn) ==
    {[content |-> c, tool_calls |-> b] :
        c \in Contents, b \in UNION {Batches(first, n) : n \in 0..maxn}}

\* turn: n turns started so far; start = len(self.messages) when the turn began;
\* nreq = completions.create calls of the turn; ncall = session.call_tool calls of
\* the turn; late = tool calls the follow-up response asked for; answer = the
\* follow-up response's content; failed = an exception was raised in the turn;
\* first = the first response's content; done = the turn has returned.
NewTurn(n, start) ==
    [n |-> n, start |-> start, nreq |-> 0, ncall |-> 0, late |-> 0, answer |-> None,
     first |-> None, failed |-> FALSE, done |-> FALSE, calls |-> <<>>, error |-> None]

\* One session of one of the two scripts: MCPClient.__init__ followed by main
\* reaching connect_to_server (pc = "connect"), or ChatSession.__init__ followed by its main
\* reaching input() (pc = "chat_input").
Init ==
    /\ messages = <<>>
    /\ api_messages = <<>>
    /\ pc \in {"connect", "chat_input"}
    /\ query = ""
    /\ tool_calls = <<>>
    /\ idx = 0
    /\ final_text = <<>>
    /\ ret = None
    /\ sent = None
    /\ next_id = 1
    /\ turn = [NewTurn(0, 0) EXCEPT !.done = TRUE]
    /\ exit_stack = <<>>
    /\ server_tools = <<>>
    /\ http = <<>>

\* -------------------------------------------------------------- chat_loop
\* the number of contexts connect_to_server has entered when it raises: none (the
\* script is missing or no .py/.js file, or stdio_client fails), stdio_client only
\* (ClientSession fails), or both (initialize or list_tools raises)
ConnectFailures == 0..2

\* lines 22-61: connect_to_server returns
ConnectReturn(tools) ==
    /\ pc = "connect"
    /\ exit_stack' = <<"stdio_client", "ClientSession">>
    /\ server_tools' = tools
    /\ pc' = "input"
    /\ UNCHANGED <<messages, api_messages, query, tool_calls, idx, final_text, ret, sent,
                   next_id, turn, http>>

\* connect_to_server raises after it has entered k contexts
ConnectRaise(k) ==
    /\ pc = "connect"
    /\ exit_stack' = SubSeq(<<"stdio_client", "ClientSession">>, 1, k)
    /\ pc' = "connect_failed"
    /\ UNCHANGED <<messages, api_messages, query, tool_calls, idx, final_text, ret, sent,
                   next_id, turn, server_tools, http>>

\* Quit that leaves the program without the finally clause of main
Cleanup_skipped ==
    /\ pc \in {"quit", "connect_failed", "aborted"}
    /\ pc' = "exited"
    /\ UNCHANGED <<messages, api_messages, query, tool_calls, idx, final_text, ret, sent,
                   next_id, turn, exit_stack, server_tools, http>>

\* the finally clause of main: cleanup closes every context of the exit stack,
\* then main returns
Cleanup ==
    /\ pc \in {"quit", "connect_failed", "aborted"}
    /\ exit_stack' = <<>>
    /\ pc' = "exited"
    /\ UNCHANGED <<messages, api_messages, query, tool_calls, idx, final_text, ret, sent,
                   next_id, turn, server_tools, http>>

\* input() raises (EOFError on a closed stdin): the except clause of chat_loop
\* prints the error and the loop reads again
InputRaise ==
    /\ pc = "input"
    /\ UNCHANGED vars

\* Quit that first stores the line as a user message
Quit_stored ==
    /\ pc = "input"
    /\ query' = "quit"
    /\ messages' = Append(messages, UserMsg("quit"))
    /\ pc' = "quit"
    /\ UNCHANGED <<api_messages, tool_calls, idx, final_text, ret, sent, next_id, turn>>
    /\ UNCHANGED env

Quit ==
    /\ pc = "input"
    /\ query' = "quit"
    /\ pc' = "quit"
    /\ UNCHANGED <<messages, api_messages, tool_calls, idx, final_text, ret, sent, next_id, turn>>
    /\ UNCHANGED env

\* Clear that keeps the first stored message
Clear_keepFirst ==
    /\ pc = "input"
    /\ query' = "clear"
    /\ messages' = IF messages = <<>> THEN <<>> ELSE <<messages[1]>>
    /\ UNCHANGED <<api_messages, pc, tool_calls, idx, final_text, ret, sent, next_id, turn>>
    /\ UNCHANGED env

Clear ==
    /\ pc = "input"
    /\ query' = "clear"
    /\ messages' = <<>>
    /\ UNCHANGED <<api_messages, pc, tool_calls, idx, final_text, ret, sent, next_id, turn>>
    /\ UNCHANGED env

\* 'history' and 'debug' only print
ShowHistory ==
    /\ pc = "input"
    /\ query' = "history"
    /\ UNCHANGED <<messages, api_messages, pc, tool_calls, idx, final_text, ret, sent, next_id, turn>>
    /\ UNCHANGED env

ShowDebug ==
    /\ pc = "input"
    /\ query' = "debug"
    /\ UNCHANGED <<messages, api_messages, pc, tool_calls, idx, final_text, ret, sent, next_id, turn>>
    /\ UNCHANGED env

\* Ctrl-C while process_query awaits: KeyboardInterrupt and CancelledError are no
\* Exception, so neither the except of line 159 nor the one of chat_loop catches
\* them; the call is left where it stands and main goes to its finally clause
Abort ==
    /\ pc \in {"list_tools", "completion1", "tool_loop", "completion2"}
    /\ turn' = [turn EXCEPT !.failed = TRUE, !.done = TRUE, !.error = Some("KeyboardInterrupt")]
    /\ pc' = "aborted"
    /\ UNCHANGED <<messages, api_messages, query, tool_calls, idx, final_text, ret, sent, next_id>>
    /\ UNCHANGED env

\* ---------------------------------------------------------- process_query
\* the return statement: "\n".join(final_text)
Return(text) ==
    /\ ret' = Some(JoinLines(text))
    /\ final_text' = text
    /\ pc' = "input"

\* lines 64-72: append the query, build the snapshot, ask the server for its tools
ProcessQuery(q) ==
    /\ pc = "input"
    /\ turn.n < MaxTurns
    /\ query' = q
    /\ messages' = Append(messages, UserMsg(q))
    /\ api_messages' = _build_api_messages(messages')
    /\ turn' = NewTurn(turn.n + 1, Len(messages))
    /\ tool_calls' = <<>>
    /\ idx' = 0
    /\ final_text' = <<>>
    /\ ret' = None
    /\ pc' = "list_tools"
    /\ UNCHANGED <<sent, next_id>>
    /\ UNCHANGED env

\* ListToolsRaise whose exception leaves chat_loop
ListToolsRaise_fatal ==
    /\ pc = "list_tools"
    /\ turn' = [turn EXCEPT !.failed = TRUE, !.done = TRUE, !.error = Some("McpError")]
    /\ pc' = "quit"
    /\ UNCHANGED <<messages, api_messages, query, tool_calls, idx, final_text, ret, sent, next_id>>
    /\ UNCHANGED env

\* lines 72-91: the discovery response arrives; the first completion request is issued
ListToolsReturn ==
    /\ pc = "list_tools"
    /\ sent' = Some([messages |-> api_messages, tools |-> available_tools(server_tools)])
    /\ turn' = [turn EXCEPT !.nreq = @ + 1]
    /\ pc' = "completion1"
    /\ UNCHANGED <<messages, api_messages, query, tool_calls, idx, final_text, ret, next_id>>
    /\ UNCHANGED env

\* line 72 raises: outside the try, so the exception leaves process_query and
\* chat_loop's handler (lines 262-265) reports it
ListToolsRaise ==
    /\ pc = "list_tools"
    /\ turn' = [turn EXCEPT !.failed = TRUE, !.done = TRUE, !.error = Some("McpError")]
    /\ pc' = "input"
    /\ UNCHANGED <<messages, api_messages, query, tool_calls, idx, final_text, ret, sent, next_id>>
    /\ UNCHANGED env

\* lines 159-168: the except clause of process_query, then the return
ExceptHandler(e) ==
    /\ Return(Append(final_text, "Error processing query: " \o e))
    /\ turn' = [turn EXCEPT !.failed = TRUE, !.done = TRUE, !.error = Some(e)]

\* lines 94-121: the first response arrives
Completion1Return(assistant_message) ==
    /\ pc = "completion1"
    /\ messages' = Append(messages, assistant_data(assistant_message))
    /\ tool_calls' = assistant_message.tool_calls
    /\ next_id' = next_id + Len(assistant_message.tool_calls)
    /\ LET text == IF Truthy(assistant_message.content)
                   THEN Append(final_text, assistant_message.content[1])
                   ELSE final_text
       IN  IF assistant_message.tool_calls # <<>>
           THEN /\ final_text' = text
                /\ idx' = 1
                /\ pc' = "tool_loop"
                /\ turn' = [turn EXCEPT !.first = assistant_message.content]
                /\ UNCHANGED ret
           ELSE /\ Return(text)
                /\ turn' = [turn EXCEPT !.first = assistant_message.content, !.done = TRUE]
                /\ UNCHANGED idx
    /\ UNCHANGED <<api_messages, query, sent>>
    /\ UNCHANGED env

\* Completion1Raise whose handler takes the user message of the turn back out
Completion1Raise_rollback ==
    /\ pc = "completion1"
    /\ ExceptHandler("APIError")
    /\ messages' = SubSeq(messages, 1, turn.start)
    /\ UNCHANGED <<api_messages, query, tool_calls, idx, sent, next_id>>
    /\ UNCHANGED env

\* Completion1Raise that sends the first request once more instead of giving up
Completion1Raise_retry ==
    /\ pc = "completion1"
    /\ turn.nreq < 2
    /\ turn' = [turn EXCEPT !.nreq = @ + 1, !.error = Some("APIError")]
    /\ UNCHANGED <<messages, api_messages, pc, query, tool_calls, idx, final_text, ret, sent, next_id>>
    /\ UNCHANGED env

Completion1Raise ==
    /\ pc = "completion1"
    /\ ExceptHandler("APIError")
    /\ UNCHANGED <<messages, api_messages, query, tool_calls, idx, sent, next_id>>
    /\ UNCHANGED env

\* line 124 raises: the arguments of tool_calls[idx] are not JSON
ToolArgsRaise ==
    /\ pc = "tool_loop"
    /\ json_loads(tool_calls[idx].function.arguments).raised
    /\ ExceptHandler(json_loads(tool_calls[idx].function.arguments).repr)
    /\ UNCHANGED <<messages, api_messages, query, tool_calls, idx, sent, next_id>>
    /\ UNCHANGED env

\* line 127 raises
CallToolRaise ==
    /\ pc = "tool_loop"
    /\ ~ json_loads(tool_calls[idx].function.arguments).raised
    /\ Return(Append(final_text, "Error processing query: " \o "McpError"))
    /\ turn' = [turn EXCEPT !.failed = TRUE, !.done = TRUE, !.ncall = @ + 1,
                            !.calls = Append(@, tool_calls[idx].id),
                            !.error = Some("McpError")]
    /\ UNCHANGED <<messages, api_messages, query, tool_calls, idx, sent, next_id>>
    /\ UNCHANGED env

\* the line process_query adds to final_text for an executed call
CallingLine(tool_call) ==
    "[Calling tool " \o tool_call.function.name \o " with args "
        \o json_loads(tool_call.function.arguments).repr \o "]"

\* CallToolReturn with the follow-up request inside the loop: it is issued after the
\* first call of the batch
CallToolReturn_early(content) ==
    /\ pc = "tool_loop"
    /\ ~ json_loads(tool_calls[idx].function.arguments).raised
    /\ final_text' = Append(final_text, CallingLine(tool_calls[idx]))
    /\ messages' = Append(messages, tool_message(tool_calls[idx], content))
    /\ idx' = idx + 1
    /\ api_messages' = _build_api_messages(messages')
    /\ sent' = Some([messages |-> api_messages', tools |-> <<>>])
    /\ turn' = [turn EXCEPT !.ncall = @ + 1, !.nreq = @ + 1,
                            !.calls = Append(@, tool_calls[idx].id)]
    /\ pc' = "completion2"
    /\ UNCHANGED <<query, tool_calls, ret, next_id>>
    /\ UNCHANGED env

\* lines 122-146: call_tool returns for tool_calls[idx]; after the last call of the
\* batch the snapshot is rebuilt and the follow-up request is issued
CallToolReturn(content) ==
    /\ pc = "tool_loop"
    /\ ~ json_loads(tool_calls[idx].function.arguments).raised
    /\ final_text' = Append(final_text, CallingLine(tool_calls[idx]))
    /\ messages' = Append(messages, tool_message(tool_calls[idx], content))
    /\ idx' = idx + 1
    /\ IF idx = Len(tool_calls)
       THEN /\ api_messages' = _build_api_messages(messages')
            /\ sent' = Some([messages |-> api_messages', tools |-> <<>>])
            /\ turn' = [turn EXCEPT !.ncall = @ + 1, !.nreq = @ + 1,
                                    !.calls = Append(@, tool_calls[idx].id)]
            /\ pc' = "completion2"
       ELSE /\ turn' = [turn EXCEPT !.ncall = @ + 1,
                                    !.calls = Append(@, tool_calls[idx].id)]
            /\ UNCHANGED <<api_messages, sent, pc>>
    /\ UNCHANGED <<query, tool_calls, ret, next_id>>
    /\ UNCHANGED env

\* Completion2Return that executes the tool calls of the follow-up response and asks again
Completion2Return_again(final_response) ==
    /\ pc = "completion2"
    /\ messages' = Append(messages, assistant_data(final_response))
    /\ final_text' = IF Truthy(final_response.content)
                     THEN Append(final_text, final_response.content[1])
                     ELSE final_text
    /\ turn' = [turn EXCEPT !.answer = final_response.content,
                            !.late = Len(final_response.tool_calls),
                            !.done = final_response.tool_calls = <<>>]
    /\ IF final_response.tool_calls = <<>>
       THEN /\ ret' = Some(JoinLines(final_text'))
            /\ pc' = "input"
            /\ UNCHANGED <<tool_calls, idx>>
       ELSE /\ tool_calls' = final_response.tool_calls
            /\ idx' = 1
            /\ pc' = "tool_loop"
            /\ UNCHANGED ret
    /\ UNCHANGED <<api_messages, query, sent, next_id>>
    /\ UNCHANGED env

\* Completion2Return that stores and reports the follow-up response only when it has text
Completion2Return_skipEmpty(final_response) ==
    /\ pc = "completion2"
    /\ messages' = IF Truthy(final_response.content)
                   THEN Append(messages, final_message(final_response))
                   ELSE messages
    /\ Return(IF Truthy(final_response.content)
              THEN Append(final_text, final_response.content[1])
              ELSE final_text)
    /\ turn' = [turn EXCEPT !.answer = final_response.content,
                            !.late = Len(final_response.tool_calls), !.done = TRUE]
    /\ UNCHANGED <<api_messages, query, tool_calls, idx, sent, next_id>>
    /\ UNCHANGED env

\* Completion2Return that forgets lines 156-157: the answer is stored but not returned
Completion2Return_noText(final_response) ==
    /\ pc = "completion2"
    /\ messages' = Append(messages, final_message(final_response))
    /\ Return(final_text)
    /\ turn' = [turn EXCEPT !.answer = final_response.content,
                            !.late = Len(final_response.tool_calls), !.done = TRUE]
    /\ UNCHANGED <<api_messages, query, tool_calls, idx, sent, next_id>>
    /\ UNCHANGED env

\* lines 148-157 and 168: the follow-up response arrives
Completion2Return(final_response) ==
    /\ pc = "completion2"
    /\ messages' = Append(messages, final_message(final_response))
    /\ Return(IF Truthy(final_response.content)
              THEN Append(final_text, final_response.content[1])
              ELSE final_text)
    /\ turn' = [turn EXCEPT !.answer = final_response.content,
                            !.late = Len(final_response.tool_calls), !.done = TRUE]
    /\ UNCHANGED <<api_messages, query, tool_calls, idx, sent, next_id>>
    /\ UNCHANGED env

\* Completion2Raise whose handler takes the messages of the failed turn back out
Completion2Raise_rollback ==
    /\ pc = "completion2"
    /\ ExceptHandler("APIError")
    /\ messages' = SubSeq(messages, 1, turn.start)
    /\ UNCHANGED <<api_messages, query, tool_calls, idx, sent, next_id>>
    /\ UNCHANGED env

Completion2Raise ==
    /\ pc = "completion2"
    /\ ExceptHandler("APIError")
    /\ UNCHANGED <<messages, api_messages, query, tool_calls, idx, sent, next_id>>
    /\ UNCHANGED env

\* ------------------------------------------------------------ ChatSession
\* tools=[IMAGE_GEN_TOOL]
IMAGE_GEN_TOOL ==
    [type |-> "function",
     function |-> [name |-> "generate_image", description |-> "d", parameters |-> "schema"]]

\* the tool calls the completion service may return to ChatSession: generate_image
\* with arguments that are an object, are no JSON or are JSON but no object, or a
\* tool the script does not know
ChatCallKinds ==
    {<<"generate_image", "{}">>, <<"generate_image", "{bad">>, <<"generate_image", "[1]">>,
     <<"get_weather", "{}">>}

ChatBatches(first, n) ==
    {[i \in 1..n |-> ToolCall(first + i - 1, f[i][1], f[i][2])] : f \in [1..n -> ChatCallKinds]}

\* response.choices[0].message as ChatSession stores it: the object itself
ChatResponses(first, maxn) ==
    {[role |-> "assistant", content |-> c, tool_calls |-> b] :
        c \in Contents, b \in UNION {ChatBatches(first, n) : n \in 0..maxn}}

\* the second response: a text, and possibly (the model ignoring that no tools were
\* offered) one more tool call
LateResponses(first) ==
    {[role |-> "assistant", content |-> c, tool_calls |-> b] :
        c \in Contents,
        b \in {<<>>} \cup (IF first <= MaxCalls
                           THEN {<<ToolCall(first, "generate_image", "{}")>>} ELSE {})}

\* VertexImageGenerator.generate_image: every failure inside it is caught and turned
\* into the path of an error image, so it always returns a path
generate_image(prompt) == "img.png"

\* lines 98-103: the result appended when the handler returned
ImageResult(tool_call) ==
    [tool_call_id |-> tool_call.id, role |-> "tool", name |-> "generate_image",
     content |-> "{\"image_path\": \"" \o generate_image("") \o "\"}"]

\* lines 107-112: the result appended by the except clause
ImageError(tool_call, e) ==
    [tool_call_id |-> tool_call.id, role |-> "tool", name |-> "generate_image",
     content |-> "{\"error\": \"" \o e \o "\"}"]

\* HandleOne with json.loads outside the try: arguments that do not parse leave no result
HandleOne_noTry(tool_call) ==
    IF tool_call.function.name = "generate_image"
    THEN IF json_loads(tool_call.function.arguments).raised
         THEN <<>>
         ELSE IF ~ json_loads(tool_call.function.arguments).is_dict
         THEN <<ImageError(tool_call, "AttributeError")>>
         ELSE <<ImageResult(tool_call)>>
    ELSE <<>>

\* lines 70-114: the body of `for tool_call in tool_calls` for one call: the
\* results it appends to tool_results.  Inside the try, json.loads raises on
\* arguments that are no JSON and function_args.get raises on a parsed value that
\* is no dict; the except clause appends the error result.
HandleOne(tool_call) ==
    IF tool_call.function.name = "generate_image"
    THEN IF json_loads(tool_call.function.arguments).raised
         THEN <<ImageError(tool_call, json_loads(tool_call.function.arguments).repr)>>
         ELSE IF ~ json_loads(tool_call.function.arguments).is_dict
         THEN <<ImageError(tool_call, "AttributeError")>>
         ELSE <<ImageResult(tool_call)>>
    ELSE <<>>

\* HandleFrom that walks the batch from its last call to its first
RECURSIVE HandleFrom_backwards(_, _)
HandleFrom_backwards(calls, i) ==
    IF i > Len(calls) THEN <<>>
    ELSE HandleFrom_backwards(calls, i + 1) \o HandleOne(calls[i])

RECURSIVE HandleFrom(_, _)
HandleFrom(calls, i) ==
    IF i > Len(calls) THEN <<>>
    ELSE HandleOne(calls[i]) \o HandleFrom(calls, i + 1)

\* ChatSession.handle_tool_calls: the tool_results it returns
handle_tool_calls(calls) == HandleFrom(calls, 1)

\* the calls of a batch for which image_generator.generate_image is invoked
Invoked(calls) ==
    {i \in 1..Len(calls) :
        /\ calls[i].function.name = "generate_image"
        /\ json_loads(calls[i].function.arguments).is_dict}

\* the ids of those calls, in the order `for tool_call in tool_calls` reaches them
RECURSIVE InvokedFrom(_, _)
InvokedFrom(calls, i) ==
    IF i > Len(calls) THEN <<>>
    ELSE (IF i \in Invoked(calls) THEN <<calls[i].id>> ELSE <<>>)
         \o InvokedFrom(calls, i + 1)

\* main of chat_with_gpt.py: "exit", "quit" or "bye"
ChatExit ==
    /\ pc = "chat_input"
    /\ query' = "exit"
    /\ pc' = "chat_exit"
    /\ UNCHANGED <<messages, api_messages, tool_calls, idx, final_text, ret, sent, next_id, turn>>
    /\ UNCHANGED env

\* lines 118-129: add the user message and issue the first completion request
Chat(user_input) ==
    /\ pc = "chat_input"
    /\ turn.n < MaxTurns
    /\ query' = user_input
    /\ messages' = Append(messages, UserMsg(user_input))
    /\ sent' = Some([messages |-> messages', tools |-> <<IMAGE_GEN_TOOL>>])
    /\ turn' = [NewTurn(turn.n + 1, Len(messages)) EXCEPT !.nreq = 1]
    /\ tool_calls' = <<>>
    /\ ret' = None
    /\ pc' = "chat_completion1"
    /\ UNCHANGED <<api_messages, idx, final_text, next_id>>
    /\ UNCHANGED env

\* lines 131-153: the first response arrives; with tool calls, handle_tool_calls
\* runs, its results are appended and the second request is issued
ChatFirstReturn(assistant_message) ==
    /\ pc = "chat_completion1"
    /\ tool_calls' = assistant_message.tool_calls
    /\ next_id' = next_id + Len(assistant_message.tool_calls)
    /\ IF assistant_message.tool_calls # <<>>
       THEN /\ messages' = Append(messages, assistant_message)
                             \o handle_tool_calls(assistant_message.tool_calls)
            /\ sent' = Some([messages |-> messages', tools |-> <<>>])
            /\ turn' = [turn EXCEPT !.first = assistant_message.content, !.nreq = @ + 1,
                                    !.ncall = Cardinality(Invoked(assistant_message.tool_calls)),
                                    !.calls = InvokedFrom(assistant_message.tool_calls, 1)]
            /\ pc' = "chat_completion2"
            /\ UNCHANGED ret
       ELSE /\ messages' = Append(messages, assistant_message)
            /\ ret' = Some(OrEmpty(assistant_message.content))
            /\ turn' = [turn EXCEPT !.first = assistant_message.content, !.done = TRUE]
            /\ pc' = "chat_input"
            /\ UNCHANGED sent
    /\ UNCHANGED <<api_messages, query, idx, final_text>>
    /\ UNCHANGED env

\* a completions.create call raises: chat has no handler and neither has main
ChatRaise ==
    /\ pc \in {"chat_completion1", "chat_completion2"}
    /\ turn' = [turn EXCEPT !.failed = TRUE, !.done = TRUE, !.error = Some("APIError")]
    /\ pc' = "chat_crashed"
    /\ UNCHANGED <<messages, api_messages, query, tool_calls, idx, final_text, ret, sent, next_id>>
    /\ UNCHANGED env

\* lines 149-151: the second response arrives and is stored as it is
ChatSecondReturn(final_response) ==
    /\ pc = "chat_completion2"
    /\ messages' = Append(messages, final_response)
    /\ next_id' = next_id + Len(final_response.tool_calls)
    /\ ret' = Some(OrEmpty(final_response.content))
    /\ turn' = [turn EXCEPT !.answer = final_response.content,
                            !.late = Len(final_response.tool_calls), !.done = TRUE]
    /\ pc' = "chat_input"
    /\ UNCHANGED <<api_messages, query, tool_calls, idx, final_text, sent>>
    /\ UNCHANGED env

Next ==
    \/ ConnectReturn(ServerTools)
    \/ \E k \in ConnectFailures : ConnectRaise(k)
    \/ Cleanup
    \/ InputRaise
    \/ Quit
    \/ Clear
    \/ ShowHistory
    \/ ShowDebug
    \/ \E q \in Queries : UserGoesOn(messages) /\ ProcessQuery(q)
    \/ ListToolsReturn
    \/ ListToolsRaise
    \/ \E r \in Responses(next_id, MaxCalls + 1 - next_id) : Completion1Return(r)
    \/ Completion1Raise
    \/ ToolArgsRaise
    \/ CallToolRaise
    \/ \E c \in ToolResults : CallToolReturn(c)
    \/ \E r \in Responses(next_id, 1) : Completion2Return(r)
    \/ Completion2Raise
    \/ Abort
    \/ ChatExit
    \/ \E q \in FreeText : Chat(q)
    \/ \E r \in ChatResponses(next_id, MaxCalls + 1 - next_id) : ChatFirstReturn(r)
    \/ ChatRaise
    \/ \E r \in LateResponses(next_id) : ChatSecondReturn(r)

Spec == Init /\ [][Next]_vars

\* ------------------------------------------- structure of a history
\* msgs[p] is an assistant message that declares tool calls
Declares(msgs, p) == msgs[p].role = "assistant" /\ "tool_calls" \in DOMAIN msgs[p]

\* a tool message with tool_call_id = id is stored after position p
AnsweredAfter(msgs, p, id) ==
    \E j \in (p + 1)..Len(msgs) : msgs[j].role = "tool" /\ msgs[j].tool_call_id = id

\* msgs[p] declares a tool call that no later tool message answers
UnansweredAt(msgs, p) ==
    /\ Declares(msgs, p)
    /\ \E k \in 1..Len(msgs[p].tool_calls) : ~ AnsweredAfter(msgs, p, msgs[p].tool_calls[k].id)

\* a call with this id is declared before position j
DeclaredBefore(msgs, j, id) ==
    \E p \in 1..(j - 1) :
        Declares(msgs, p) /\ \E k \in 1..Len(msgs[p].tool_calls) : msgs[p].tool_calls[k].id = id

\* ------------------------------------------------ properties of the loops
McpPcs == {"input", "list_tools", "completion1", "tool_loop", "completion2", "quit"}
ChatPcs == {"chat_input", "chat_completion1", "chat_completion2", "chat_exit", "chat_crashed"}

\* the tool messages of msgs that carry tool_call_id = id
Answers(msgs, id) ==
    {j \in 1..Len(msgs) : msgs[j].role = "tool" /\ msgs[j].tool_call_id = id}

\* process_query has just returned to chat_loop (no command was read since)
McpTurnEnded == pc = "input" /\ turn.n > 0 /\ turn.done /\ query \in Queries

\* the messages the current turn appended
NewMessages == SubSeq(messages, turn.start + 1, Len(messages))

\* C2: in process_query the follow-up completion request is issued only when the
\* history holds exactly one tool message for every call of the first response's batch.
C2_FollowUpAfterAllAnswered ==
    (pc = "completion2" \/ (pc \in McpPcs /\ ~ turn.done /\ turn.nreq = 2)) =>
        /\ tool_calls # <<>>
        /\ \A k \in 1..Len(tool_calls) :
              Cardinality(Answers(messages, tool_calls[k].id)) = 1

\* C2 witness: the follow-up request is in flight for a batch of two calls.
C2_Witness == pc = "completion2" /\ Len(tool_calls) = 2 /\ turn.nreq = 2

\* C3 (as claimed): when process_query returns from a turn whose first response
\* carried tool calls, every call of the batch has a tool message in the history and
\* the follow-up request was issued, also when a tool invocation failed.
C3_ToolFailureKeepsRound ==
    (McpTurnEnded /\ tool_calls # <<>>) =>
        /\ \A k \in 1..Len(tool_calls) : Answers(messages, tool_calls[k].id) # {}
        /\ turn.nreq = 2

\* C4 (as claimed): when ChatSession issues the second request, every call of the
\* batch that names an unknown tool has a tool result with its id in the history.
C4_UnknownToolAnswered ==
    pc = "chat_completion2" =>
        \A k \in 1..Len(tool_calls) :
            tool_calls[k].function.name # "generate_image" =>
                Answers(messages, tool_calls[k].id) # {}

\* C5 (as claimed): no message list ChatSession sends to the completion service
\* holds an assistant message with a tool call that no later tool message answers.
C5_ChatNeverSendsUnanswered ==
    pc \in {"chat_completion1", "chat_completion2"} =>
        \A p \in 1..Len(sent[1].messages) : ~ UnansweredAt(sent[1].messages, p)

\* C6: handle_tool_calls yields exactly one result for every generate_image call of
\* the batch, an error payload when handling the call raised (its arguments are no
\* JSON, or no JSON object) and the image path otherwise, and chat goes on to the
\* second request whatever the batch holds.
C6_GenerateImageAlwaysAnswered ==
    (pc \in ChatPcs /\ tool_calls # <<>>) =>
        /\ turn.nreq = 2
        /\ \A k \in 1..Len(tool_calls) :
              tool_calls[k].function.name = "generate_image" =>
                  /\ Cardinality(Answers(messages, tool_calls[k].id)) = 1
                  /\ \A j \in Answers(messages, tool_calls[k].id) :
                        messages[j] =
                            IF tool_calls[k].function.arguments = "{bad"
                            THEN ImageError(tool_calls[k], "JSONDecodeError")
                            ELSE IF tool_calls[k].function.arguments = "[1]"
                            THEN ImageError(tool_calls[k], "AttributeError")
                            ELSE ImageResult(tool_calls[k])

\* C6 witness: a batch whose first generate_image call has arguments that do not
\* parse and whose second parses: both are answered and the second request is out.
C6_Witness ==
    /\ pc = "chat_completion2"
    /\ Len(tool_calls) = 2
    /\ tool_calls[1].function = [name |-> "generate_image", arguments |-> "{bad"]
    /\ tool_calls[2].function = [name |-> "generate_image", arguments |-> "{}"]
    /\ Answers(messages, tool_calls[2].id) # {}

\* C7: a turn of either loop issues at most two completion requests, and when the
\* second response asks for tool calls no tool is invoked for them, no third request
\* is made and the turn has ended with a returned answer.
C7_TwoRoundsAtMost ==
    /\ turn.nreq <= 2
    /\ turn.ncall <= Len(tool_calls)
    /\ turn.late > 0 =>
          /\ turn.done
          /\ turn.nreq = 2
          /\ pc \in {"input", "quit", "exited", "chat_input", "chat_exit"}
          /\ ret # None

\* C7 witness: the second response of an MCP turn asked for a tool call.
C7_Witness == pc = "input" /\ turn.late > 0 /\ turn.ncall = 1

\* C8: a process_query turn in which nothing fails appends user, assistant when the
\* first response asks for no tool, and user, assistant with the calls, one tool
\* message per call, assistant when it asks for n >= 1 calls.
C8_TurnGrowth ==
    (McpTurnEnded /\ ~ turn.failed) =>
        LET n == Len(tool_calls) IN
        /\ NewMessages[1] = UserMsg(query)
        /\ IF n = 0
           THEN /\ Len(NewMessages) = 2
                /\ NewMessages[2].role = "assistant" /\ ~ Declares(NewMessages, 2)
           ELSE /\ Len(NewMessages) = n + 3
                /\ Declares(NewMessages, 2) /\ Len(NewMessages[2].tool_calls) = n
                /\ \A i \in 1..n : NewMessages[2 + i].role = "tool"
                /\ NewMessages[n + 3].role = "assistant" /\ ~ Declares(NewMessages, n + 3)

\* C8 witness: a second turn with a batch of two calls ended without a failure.
C8_Witness ==
    McpTurnEnded /\ ~ turn.failed /\ Len(tool_calls) = 2 /\ turn.n = 2 /\ turn.start > 0

\* a turn went through a tool round and the second completion returned a text
ToolRoundAnswered ==
    turn.done /\ ~ turn.failed /\ turn.nreq = 2 /\ Truthy(turn.answer)

\* C9 (as claimed): after a tool round whose second completion returned a text, the
\* value returned to the caller is exactly that text, in both loops.
C9_ReturnsAnswerText ==
    (ToolRoundAnswered /\ pc \in {"input", "chat_input"}) => ret = Some(turn.answer[1])

\* final_text of a process_query turn that went through a tool round
ToolRoundLines ==
    (IF Truthy(turn.first) THEN <<turn.first[1]>> ELSE <<>>)
    \o [k \in 1..Len(tool_calls) |-> CallingLine(tool_calls[k])]
    \o <<turn.answer[1]>>

\* C9 (amended): ChatSession.chat returns exactly the answer text; process_query
\* returns the lines of the first response's text (when not empty), one
\* "[Calling tool ...]" line per call of the batch, and the answer text last.
C9_ReturnsAnswerLast ==
    ToolRoundAnswered =>
        /\ pc \in {"chat_input", "chat_exit"} => ret = Some(turn.answer[1])
        /\ pc \in {"input", "quit"} => ret = Some(JoinLines(ToolRoundLines))

\* C9 witness: process_query returned after a tool round with a first text, one
\* call and an answer text.
C9_Witness ==
    /\ ToolRoundAnswered
    /\ pc = "input"
    /\ Truthy(turn.first)
    /\ ret = Some("A\n[Calling tool get_forecast with args {}]\nA")

\* ----------------------------------- _build_api_messages on any history
\* the tool_calls lists over the ids 1..MaxIds: one call, or two distinct calls
CallLists ==
    {<<ToolCall(a, "get_forecast", "{}")>> : a \in 1..MaxIds}
    \cup {<<ToolCall(ab[1], "get_forecast", "{}"), ToolCall(ab[2], "get_alerts", "{}")>> :
            ab \in {x \in (1..MaxIds) \X (1..MaxIds) : x[1] # x[2]}}

\* the entries a stored history is made of
StoredMsgs ==
    {UserMsg("q"), SystemMsg("s"), [role |-> "assistant", content |-> "a"],
     [role |-> "assistant", content |-> "", tool_calls |-> <<>>]}
    \cup {[role |-> "assistant", content |-> "", tool_calls |-> cl] : cl \in CallLists}
    \cup {[role |-> "tool", tool_call_id |-> a, name |-> "get_forecast", content |-> "R"] :
            a \in 1..MaxIds}

Histories == UNION {[1..n -> StoredMsgs] : n \in 0..MaxLen}

\* an MCPClient whose self.messages holds any history
InitBuild ==
    /\ messages \in Histories
    /\ api_messages = <<>>
    /\ pc = "stored"
    /\ query = ""
    /\ tool_calls = <<>>
    /\ idx = 0
    /\ final_text = <<>>
    /\ ret = None
    /\ sent = None
    /\ next_id = MaxIds + 1
    /\ turn = [NewTurn(0, 0) EXCEPT !.done = TRUE]
    /\ exit_stack = <<>>
    /\ server_tools = <<>>
    /\ http = <<>>

\* BuildSnapshot whose filter writes the list it built back to self.messages
BuildSnapshot_inplace ==
    /\ pc \in {"stored", "built"}
    /\ api_messages' = _build_api_messages(messages)
    /\ messages' = api_messages'
    /\ pc' = IF pc = "stored" THEN "built" ELSE "built2"
    /\ UNCHANGED <<query, tool_calls, idx, final_text, ret, sent, next_id, turn>>
    /\ UNCHANGED env

\* api_messages = self._build_api_messages(): the first call (pc "stored" to
\* "built") and a second call with no append in between ("built" to "built2")
BuildSnapshot ==
    /\ pc \in {"stored", "built"}
    /\ api_messages' = _build_api_messages(messages)
    /\ pc' = IF pc = "stored" THEN "built" ELSE "built2"
    /\ UNCHANGED <<messages, query, tool_calls, idx, final_text, ret, sent, next_id, turn>>
    /\ UNCHANGED env

NextBuild == BuildSnapshot

SpecBuild == InitBuild /\ [][NextBuild]_vars

\* C1: for every stored history, the snapshot holds no assistant message that
\* declares a tool call without a tool message of that id later in the history.
C1_NoOrphanInSnapshot ==
    pc = "built" =>
        \A p \in 1..Len(messages) :
            UnansweredAt(messages, p) => ~ InSeq(messages[p], api_messages)

\* C1 witness: a history in which one assistant message is orphaned and another,
\* fully answered, is kept in the snapshot.
C1_Witness ==
    /\ pc = "built"
    /\ \E p \in 1..Len(messages) : UnansweredAt(messages, p)
    /\ \E i \in 1..Len(api_messages) : Declares(api_messages, i)

\* every declared call is answered later and every tool message answers an earlier call
WellFormed(msgs) ==
    /\ \A p \in 1..Len(msgs) : ~ UnansweredAt(msgs, p)
    /\ \A j \in 1..Len(msgs) :
        msgs[j].role = "tool" => DeclaredBefore(msgs, j, msgs[j].tool_call_id)

\* C10: on a history in which every declared call is answered later and every
\* tool message answers an earlier call, the snapshot equals the history.
C10_SnapshotIsHistory ==
    (pc = "built" /\ WellFormed(messages)) => api_messages = messages

\* C10 witness: such a history of full length with an answered batch of two calls.
C10_Witness ==
    /\ pc = "built"
    /\ WellFormed(messages)
    /\ \E p \in 1..Len(messages) : Declares(messages, p) /\ Len(messages[p].tool_calls) = 2
    /\ Len(api_messages) = MaxLen

RECURSIVE IsSubseq(_, _)
IsSubseq(a, b) ==
    IF a = <<>> THEN TRUE
    ELSE IF b = <<>> THEN FALSE
    ELSE IF Head(a) = Head(b) THEN IsSubseq(Tail(a), Tail(b))
    ELSE IsSubseq(a, Tail(b))

IsUserOrSystem(m) == m.role \in {"user", "system"}

\* C12: for every stored history the snapshot is an order-preserving subsequence
\* of the history and holds all of its user and system messages, in their order.
C12_SnapshotIsSubsequence ==
    pc = "built" =>
        /\ IsSubseq(api_messages, messages)
        /\ SelectSeq(api_messages, IsUserOrSystem) = SelectSeq(messages, IsUserOrSystem)

\* C12 witness: a history with a system message, a user message and an orphaned
\* assistant message, which the snapshot drops.
C12_Witness ==
    /\ pc = "built"
    /\ \E p \in 1..Len(messages) : UnansweredAt(messages, p)
    /\ \E i \in 1..Len(api_messages) : api_messages[i].role = "system"
    /\ \E i \in 1..Len(api_messages) : api_messages[i].role = "user"
    /\ Len(api_messages) = 2

\* every tool message of msgs is preceded in msgs by an assistant message declaring its id
ToolsFollowDeclaration(msgs) ==
    \A j \in 1..Len(msgs) :
        msgs[j].role = "tool" => DeclaredBefore(msgs, j, msgs[j].tool_call_id)

\* C13 (as claimed): every message list process_query sends to the completion
\* service is structurally valid: each tool message in it is preceded, in that
\* list, by an assistant message declaring its tool_call_id.
C13_SnapshotToolsDeclared ==
    pc \in {"completion1", "completion2"} => ToolsFollowDeclaration(sent[1].messages)

\* the ids some assistant message of msgs declares with no tool message after it
UnansweredIds(msgs) ==
    {id \in 1..(MaxIds + 1) :
        \E p \in 1..Len(msgs) :
            /\ Declares(msgs, p)
            /\ \E k \in 1..Len(msgs[p].tool_calls) : msgs[p].tool_calls[k].id = id
            /\ ~ AnsweredAfter(msgs, p, id)}

\* C14: the warning is printed exactly when some declared id has no answering
\* tool message, it lists exactly those ids (each once), and then no assistant
\* message declaring one of them is in the snapshot.
C14_WarningListsUnanswered ==
    pc = "built" =>
        LET missing == missing_responses(messages) IN
        /\ (Warning(messages) # None) <=> (UnansweredIds(messages) # {})
        /\ {missing[k] : k \in 1..Len(missing)} = UnansweredIds(messages)
        /\ Cardinality(UnansweredIds(messages)) = Len(missing)
        /\ Warning(messages) # None => Warning(messages) = Some(missing)
        /\ \A i \in 1..Len(api_messages) :
              Declares(api_messages, i) =>
                  \A k \in 1..Len(api_messages[i].tool_calls) :
                      api_messages[i].tool_calls[k].id \notin UnansweredIds(messages)

\* C14 witness: an id that was answered once and is declared again without an
\* answer is the one id the warning lists.
C14_Witness ==
    /\ pc = "built"
    /\ Len(messages) = 3
    /\ Declares(messages, 1) /\ messages[2].role = "tool" /\ Declares(messages, 3)
    /\ messages[2].tool_call_id = 1
    /\ Warning(messages) = Some(<<1>>)

\* ------------------------------------------- more properties of the loops
\* the ids of a batch, in the order the response lists them
BatchIds(calls) == [i \in 1..Len(calls) |-> calls[i].id]

\* the tool_call_ids of the tool messages the current turn appended, in history order
NewToolIds ==
    LET tools == SelectSeq(NewMessages, LAMBDA m : m.role = "tool")
    IN  [i \in 1..Len(tools) |-> tools[i].tool_call_id]

\* a ChatSession turn with a batch has run handle_tool_calls (no command can
\* change the history in between: main of chat_with_gpt.py has none)
ChatBatchHandled == pc \in ChatPcs /\ tool_calls # <<>>

\* a process_query turn has received a batch and no command was read since
McpBatchReceived ==
    /\ tool_calls # <<>>
    /\ pc \in {"tool_loop", "completion2", "aborted"} \/ McpTurnEnded

\* C15: in both loops the calls of a batch are invoked in the order the response
\* lists them and the tool messages are appended in that order, right after the
\* assistant message: in process_query the i-th tool message answers the i-th call;
\* in ChatSession the results follow the order of the batch and, when every call
\* has a result, the i-th tool message answers the i-th call.
C15_CallsInListedOrder ==
    /\ McpBatchReceived =>
          /\ Len(turn.calls) <= Len(tool_calls)
          /\ turn.calls = SubSeq(BatchIds(tool_calls), 1, Len(turn.calls))
          /\ Len(NewToolIds) <= Len(turn.calls)
          /\ NewToolIds = SubSeq(BatchIds(tool_calls), 1, Len(NewToolIds))
          /\ \A i \in 1..Len(NewToolIds) : NewMessages[2 + i].role = "tool"
    /\ ChatBatchHandled =>
          /\ IsSubseq(turn.calls, BatchIds(tool_calls))
          /\ IsSubseq(NewToolIds, BatchIds(tool_calls))
          /\ \A i \in 1..Len(NewToolIds) : NewMessages[2 + i].role = "tool"
          /\ Len(NewToolIds) = Len(tool_calls) => NewToolIds = BatchIds(tool_calls)

\* C15 witness: ChatSession has handled a batch of two generate_image calls, the
\* first with arguments that do not parse, and both have their result.
C15_Witness ==
    /\ pc = "chat_completion2"
    /\ Len(tool_calls) = 2
    /\ tool_calls[1].function = [name |-> "generate_image", arguments |-> "{bad"]
    /\ Len(NewToolIds) = 2
    /\ turn.calls = <<tool_calls[2].id>>

\* C16: once a completion request of a process_query turn has raised, the turn is
\* over: process_query has returned the error report, no request was sent after
\* the failing one and no tool was invoked after it.
C16_CompletionFailureEndsTurn ==
    (pc \in McpPcs /\ turn.error = Some("APIError")) =>
        /\ turn.done /\ turn.failed
        /\ pc \in {"input", "quit"}
        /\ \/ turn.nreq = 1 /\ turn.calls = <<>> /\ tool_calls = <<>>
           \/ turn.nreq = 2 /\ tool_calls # <<>> /\ turn.calls = BatchIds(tool_calls)
        /\ ret # None
        /\ final_text # <<>>
        /\ final_text[Len(final_text)] = "Error processing query: APIError"
        /\ ret = Some(JoinLines(final_text))

\* C16 witness: the second request of a turn with a batch of two calls raised and
\* process_query has returned.
C16_Witness ==
    /\ McpTurnEnded
    /\ turn.error = Some("APIError")
    /\ turn.nreq = 2
    /\ Len(tool_calls) = 2

\* every declared call of msgs has exactly one tool message and every tool
\* message answers a call of an earlier assistant message
Consistent(msgs) ==
    /\ \A p \in 1..Len(msgs) :
          Declares(msgs, p) =>
              \A k \in 1..Len(msgs[p].tool_calls) :
                  /\ Cardinality(Answers(msgs, msgs[p].tool_calls[k].id)) = 1
                  /\ AnsweredAfter(msgs, p, msgs[p].tool_calls[k].id)
    /\ ToolsFollowDeclaration(msgs)

\* C17 (as claimed): when process_query has returned from a turn that a failing
\* completion request ended, the stored history is consistent.
C17_HistoryConsistentAfterFailure ==
    (McpTurnEnded /\ turn.error = Some("APIError")) => Consistent(messages)

\* C18: in every state of either loop each stored tool message carries an id that
\* an assistant message stored before it declares.
C18_ToolMessagesDeclared == ToolsFollowDeclaration(messages)

\* C18 witness: a later turn failed at its first request while the history holds a
\* tool message of an earlier turn's batch that was left half answered.
C18_Witness ==
    /\ McpTurnEnded
    /\ turn.n = 2
    /\ turn.error = Some("APIError")
    /\ \E p \in 1..Len(messages) : UnansweredAt(messages, p)
    /\ \E j \in 1..Len(messages) : messages[j].role = "tool"

IsPrefix(a, b) == Len(a) <= Len(b) /\ a = SubSeq(b, 1, Len(a))

\* the positions of a process_query or ChatSession.chat call that has not returned
TurnPcs ==
    {"list_tools", "completion1", "tool_loop", "completion2",
     "chat_completion1", "chat_completion2"}

\* C19: every step that starts a turn, is taken inside one or ends one (by a
\* return, a failure or an abort) leaves the history it found as a prefix of the
\* history it leaves.
C19_AppendOnly ==
    [][(pc \in TurnPcs \/ pc' \in TurnPcs) => IsPrefix(messages, messages')]_vars

\* C19 witness: a second process_query turn was ended by its failing follow-up
\* request, and the messages of the turn are in the history behind the older ones.
C19_Witness ==
    /\ McpTurnEnded
    /\ turn.error = Some("APIError")
    /\ turn.nreq = 2
    /\ turn.start > 0
    /\ Len(messages) > turn.start + 2

\* C20: a chat_loop iteration that reads clear empties the history, one that reads
\* history or debug leaves it as it is, and none of the three sends a request or
\* invokes a tool; one that reads any other text but quit starts one turn, and
\* its step appends that text as a user message before anything else happens.
C20_Commands ==
    [][pc = "input" =>
          /\ query' = "clear" =>
                messages' = <<>> /\ pc' = "input" /\ UNCHANGED <<sent, turn>>
          /\ query' \in {"history", "debug"} =>
                pc' = "input" /\ UNCHANGED <<messages, sent, turn>>
          /\ query' \notin {"quit", "clear", "history", "debug"} =>
                /\ messages' = Append(messages, UserMsg(query'))
                /\ turn'.n = turn.n + 1
                /\ turn'.nreq = 0 /\ turn'.calls = <<>>
                /\ pc' = "list_tools"
                /\ UNCHANGED sent]_vars

\* C20 witness: clear was read with a turn's messages stored, and the history is empty.
C20_Witness ==
    pc = "input" /\ query = "clear" /\ messages = <<>> /\ turn.n > 0 /\ turn.nreq = 2

\* ------------------------------------------------ chat_loop, main, discovery
\* C21 (as claimed): a chat_loop iteration that reads quit or exit ends the loop,
\* stores no user message and sends no completion request.
C21_QuitOrExitEndsLoop ==
    [][(pc = "input" /\ query' \in {"quit", "exit"}) =>
          /\ pc' = "quit"
          /\ UNCHANGED <<messages, sent, turn>>]_vars

\* C21 (amended): a chat_loop iteration that reads quit ends the loop, stores no
\* user message and sends no request; one that reads exit runs process_query on
\* it as on any other text: the line is stored as a user message and a turn starts.
C21_QuitEndsLoop ==
    [][(pc = "input" /\ pc' # "input") =>
          /\ query' = "quit" =>
                pc' = "quit" /\ UNCHANGED <<messages, sent, turn>>
          /\ query' = "exit" =>
                /\ pc' = "list_tools"
                /\ messages' = Append(messages, UserMsg("exit"))
                /\ turn'.n = turn.n + 1]_vars

\* C21 witness: the loop has ended on quit, after a turn for the line exit that
\* went through both completion requests.
C21_Witness ==
    /\ pc = "quit"
    /\ query = "quit"
    /\ turn.nreq = 2
    /\ \E i \in 1..Len(messages) : messages[i] = UserMsg("exit")

\* C22: when main of client.py has returned, whichever way it left the try block
\* (quit, connect_to_server raising, an exception leaving chat_loop), every
\* context the exit stack had entered is closed.
C22_CleanupBeforeExit == pc = "exited" => exit_stack = <<>>

\* C22 witness: main has returned after connect_to_server raised, before any turn.
C22_Witness == pc = "exited" /\ server_tools = <<>> /\ turn.n = 0 /\ exit_stack = <<>>

\* C23 (as claimed): after a turn in which session.list_tools or session.call_tool
\* raised, chat_loop starts no further turn.
C23_ProtocolFailureEndsSession ==
    [][(pc = "input" /\ turn.error = Some("McpError")) => pc' # "list_tools"]_vars

\* C24: the tools argument of the first request of every process_query turn has one
\* schema per tool of the discovery response, in its order, with the tool's name,
\* description and input schema.
C24_SchemasAreDiscovery ==
    pc = "completion1" =>
        /\ Len(sent[1].tools) = Len(server_tools)
        /\ \A i \in 1..Len(server_tools) :
              /\ sent[1].tools[i].type = "function"
              /\ sent[1].tools[i].function.name = server_tools[i].name
              /\ sent[1].tools[i].function.description = server_tools[i].description
              /\ sent[1].tools[i].function.parameters = server_tools[i].inputSchema

\* C24 witness: the first request of a second turn is out with three schemas.
C24_Witness == pc = "completion1" /\ turn.n = 2 /\ Len(sent[1].tools) = Len(ServerTools)

\* the tool messages of msgs from position j on that an earlier assistant
\* message of msgs declares, in their order
RECURSIVE DeclaredTools(_, _)
DeclaredTools(msgs, j) ==
    IF j > Len(msgs) THEN <<>>
    ELSE (IF msgs[j].role = "tool" /\ DeclaredBefore(msgs, j, msgs[j].tool_call_id)
          THEN <<msgs[j]>> ELSE <<>>)
         \o DeclaredTools(msgs, j + 1)

IsTool(m) == m.role = "tool"

\* C25: the tool messages of the snapshot are, in their order, tool messages of the
\* stored history whose id an assistant message stored before them declares.
C25_OnlyDeclaredToolsCopied ==
    pc = "built" => IsSubseq(SelectSeq(api_messages, IsTool), DeclaredTools(messages, 1))

\* C25 witness: a tool message stored before the assistant message that declares
\* its id and once more after it: the snapshot holds the second one only.
C25_Witness ==
    /\ pc = "built"
    /\ Len(messages) = 3
    /\ messages[1].role = "tool" /\ messages[3] = messages[1]
    /\ Declares(messages, 2)
    /\ DeclaredBefore(messages, 3, messages[3].tool_call_id)
    /\ api_messages = <<messages[2], messages[3]>>

\* C26: in both loops the first request of a turn carries the tool schemas and the
\* follow-up request carries none, and the message process_query stores for the
\* follow-up response has no tool_calls, whatever that response asked for.
C26_ToolsInFirstRequestOnly ==
    /\ pc = "completion1" =>
          sent[1].tools = available_tools(server_tools) /\ sent[1].tools # <<>>
    /\ pc = "chat_completion1" => sent[1].tools = <<IMAGE_GEN_TOOL>>
    /\ pc \in {"completion2", "chat_completion2"} => sent[1].tools = <<>>
    /\ (McpTurnEnded /\ ~ turn.failed /\ turn.nreq = 2) =>
          /\ messages[Len(messages)].role = "assistant"
          /\ "tool_calls" \notin DOMAIN messages[Len(messages)]
          /\ \A p \in 1..Len(NewMessages) : ~ UnansweredAt(NewMessages, p)

\* C26 witness: a process_query turn has ended whose follow-up response asked for
\* a tool call.
C26_Witness == McpTurnEnded /\ ~ turn.failed /\ turn.nreq = 2 /\ turn.late > 0

\* C27 (as claimed): chat_loop is left only by the quit command.
C27_LoopEndsOnlyOnQuit == pc \in {"quit", "aborted"} => query = "quit"

\* the positions of chat_loop and of the process_query call it awaits
LoopPcs == {"input", "list_tools", "completion1", "tool_loop", "completion2"}

\* C27 (amended): a step in which an Exception is raised (by list_tools, by a
\* completion request, by json.loads or call_tool) takes chat_loop back to input()
\* with the history as it was when the exception was raised; the loop is left only
\* by the quit command or by an interrupt, which is no Exception.
C27_ExceptionKeepsLoop ==
    [][(pc \in LoopPcs) =>
          /\ (turn'.failed /\ ~ turn.failed /\ turn'.error # Some("KeyboardInterrupt")) =>
                pc' = "input" /\ messages' = messages
          /\ pc' \notin LoopPcs =>
                \/ pc = "input" /\ pc' = "quit" /\ query' = "quit"
                \/ pc' = "aborted" /\ turn'.error = Some("KeyboardInterrupt")
    ]_vars

\* C27 witness: list_tools raised in a second turn, process_query returned nothing
\* and chat_loop is at input() again.
C27_Witness ==
    /\ pc = "input"
    /\ turn.n = 2
    /\ turn.error = Some("McpError")
    /\ turn.nreq = 0
    /\ ret = None
    /\ messages[Len(messages)] = UserMsg(query)

\* process_query has returned from a turn whose first completion request raised
FirstRequestFailed == McpTurnEnded /\ turn.error = Some("APIError") /\ turn.nreq = 1

\* C28: when the first completion request of a turn raised, the turn has added the
\* user message and nothing else, and the snapshot the next turn builds ends with
\* that user message followed by the new one.
C28_FailedQueryStaysInHistory ==
    [][FirstRequestFailed =>
          /\ NewMessages = <<UserMsg(query)>>
          /\ pc' = "list_tools" =>
                /\ Len(api_messages') >= 2
                /\ SubSeq(api_messages', Len(api_messages') - 1, Len(api_messages'))
                       = <<UserMsg(query), UserMsg(query')>>
    ]_vars

\* C28 witness: the first request of a second turn is out and its snapshot is the
\* user message of the failed first turn followed by the new user message.
C28_Witness ==
    /\ pc = "completion1"
    /\ turn.n = 2
    /\ messages = <<UserMsg("q"), UserMsg("q")>>
    /\ sent[1].messages = messages

\* ------------------------------------------- weather.py: get_crypto_price
\* One call of the tool: query holds the argument symbol, ret what the call
\* returned, http the requests made so far with what came back, and pc the place:
\* "called", "coincap" (CoinGecko yielded no price), "returned".
Symbols == {"bitcoin", "ethereum", "BNB", "nocoin"}

\* symbol.lower() and symbol.upper() on Symbols
Lower(symbol) == IF symbol = "BNB" THEN "bnb" ELSE symbol

Upper(symbol) ==
    IF symbol = "bitcoin" THEN "BITCOIN"
    ELSE IF symbol = "ethereum" THEN "ETHEREUM"
    ELSE IF symbol = "nocoin" THEN "NOCOIN"
    ELSE symbol

coingecko_url(symbol) ==
    "https://api.coingecko.com/api/v3/simple/price?ids=" \o Lower(symbol) \o "&vs_currencies=usd"

\* symbol_map.get(symbol_lower, symbol_lower)
coincap_id(symbol) ==
    IF Lower(symbol) \in {"bnb", "binancecoin"} THEN "binance-coin" ELSE Lower(symbol)

coincap_url(symbol) == "https://api.coincap.io/v2/assets/" \o coincap_id(symbol)

\* three decimal digits, zero padded
Pad3(n) ==
    IF n < 10 THEN "00" \o ToString(n) ELSE IF n < 100 THEN "0" \o ToString(n) ELSE ToString(n)

\* f"{price:,.2f}" for a price in whole dollars below a million
Fmt(price) ==
    (IF price < 1000 THEN ToString(price)
     ELSE ToString(price \div 1000) \o "," \o Pad3(price % 1000)) \o ".00"

\* JSON values found where a price is expected: a number, or something else
Values == {[num |-> 5], [num |-> 50000], [str |-> "n/a"]}

\* what session.get(coingecko_url) may give: a status, whether the body is JSON,
\* and the parsed body
GeckoResponses(symbol) ==
    {[status |-> 429, json |-> FALSE, data |-> <<>>],
     [status |-> 500, json |-> FALSE, data |-> <<>>],
     [status |-> 200, json |-> FALSE, data |-> <<>>],
     [status |-> 200, json |-> TRUE, data |-> <<>>],
     [status |-> 200, json |-> TRUE, data |-> (Lower(symbol) :> [eur |-> [num |-> 5]])]}
    \cup {[status |-> 200, json |-> TRUE, data |-> (Lower(symbol) :> [usd |-> v])] :
             v \in Values}

\* float(coincap_data["data"]["priceUsd"]) on the strings CoinCap sends
float(text) ==
    IF text = "5" THEN [raised |-> FALSE, num |-> 5]
    ELSE IF text = "50000" THEN [raised |-> FALSE, num |-> 50000]
    ELSE [raised |-> TRUE, num |-> 0]

CapResponses ==
    {[status |-> 404, json |-> TRUE, data |-> <<>>],
     [status |-> 200, json |-> FALSE, data |-> <<>>],
     [status |-> 200, json |-> TRUE, data |-> <<>>],
     [status |-> 200, json |-> TRUE, data |-> [data |-> [id |-> "x"]]]}
    \cup {[status |-> 200, json |-> TRUE, data |-> [data |-> [priceUsd |-> t]]] :
             t \in {"5", "50000", "n/a"}}

\* the entry of http for one request
Exchange(api, url, raised, status) ==
    [api |-> api, url |-> url, raised |-> raised, status |-> status]

\* the texts get_crypto_price returns
PriceText(symbol, price, api) ==
    "Current price of " \o Upper(symbol) \o ": $" \o Fmt(price) \o " USD (via " \o api \o ")"

NetworkErrorText(symbol, e) ==
    "Network error while fetching " \o Upper(symbol) \o " price: " \o e

TimeoutText(symbol) ==
    "Request timed out while fetching " \o Upper(symbol)
        \o " price. The APIs might be experiencing high load."

UnexpectedText(symbol, e) ==
    "Error fetching cryptocurrency price for " \o Upper(symbol) \o ": " \o e

InitCrypto ==
    /\ messages = <<>>
    /\ api_messages = <<>>
    /\ pc = "called"
    /\ query \in Symbols
    /\ tool_calls = <<>>
    /\ idx = 0
    /\ final_text = <<>>
    /\ ret = None
    /\ sent = None
    /\ next_id = 1
    /\ turn = [NewTurn(0, 0) EXCEPT !.done = TRUE]
    /\ exit_stack = <<>>
    /\ server_tools = ServerTools
    /\ http = <<>>

\* what a step of get_crypto_price leaves alone
CryptoFrame ==
    UNCHANGED <<messages, api_messages, query, tool_calls, idx, final_text, sent, next_id,
                turn, exit_stack, server_tools>>

\* `import aiohttp` raises ImportError
ImportRaise ==
    /\ pc = "called"
    /\ ret' = Some("Error: Required package 'aiohttp' is not installed. "
                    \o "Please install it with 'pip install aiohttp'.")
    /\ pc' = "returned"
    /\ UNCHANGED http
    /\ CryptoFrame

\* the except clauses of the inner try, for an exception e of a request
RequestRaised(e) ==
    /\ ret' = Some(IF e = "ClientError" THEN NetworkErrorText(query, e) ELSE TimeoutText(query))
    /\ pc' = "returned"

\* session.get(coingecko_url) raises aiohttp.ClientError or asyncio.TimeoutError
GeckoRaise(e) ==
    /\ pc = "called"
    /\ http' = Append(http, Exchange("CoinGecko", coingecko_url(query), e, 0))
    /\ RequestRaised(e)
    /\ CryptoFrame

\* session.get(coingecko_url) answers: a price is returned, or response.json()
\* raises (a ClientError), or formatting the value raises (the outer except), or
\* the code goes on to CoinCap
GeckoRespond(response) ==
    /\ pc = "called"
    /\ http' = Append(http, Exchange("CoinGecko", coingecko_url(query), "", response.status))
    /\ IF response.status = 200 /\ ~ response.json
       THEN RequestRaised("ClientError")
       ELSE IF /\ response.status = 200
               /\ Lower(query) \in DOMAIN response.data
               /\ "usd" \in DOMAIN response.data[Lower(query)]
       THEN /\ ret' = Some(IF "num" \in DOMAIN response.data[Lower(query)].usd
                           THEN PriceText(query, response.data[Lower(query)].usd.num, "CoinGecko")
                           ELSE UnexpectedText(query, "ValueError"))
            /\ pc' = "returned"
       ELSE /\ pc' = "coincap"
            /\ UNCHANGED ret
    /\ CryptoFrame

\* session.get(coincap_url) raises
CapRaise(e) ==
    /\ pc = "coincap"
    /\ http' = Append(http, Exchange("CoinCap", coincap_url(query), e, 0))
    /\ RequestRaised(e)
    /\ CryptoFrame

\* session.get(coincap_url) answers
CapRespond(response) ==
    /\ pc = "coincap"
    /\ http' = Append(http, Exchange("CoinCap", coincap_url(query), "", response.status))
    /\ IF response.status # 200
       THEN /\ ret' = Some("Error fetching price for " \o Upper(query)
                            \o ": Both APIs failed. CoinCap returned status "
                            \o ToString(response.status) \o ".")
            /\ pc' = "returned"
       ELSE IF ~ response.json
       THEN RequestRaised("ClientError")
       ELSE /\ ret' = Some(
                  IF /\ "data" \in DOMAIN response.data
                     /\ "priceUsd" \in DOMAIN response.data.data
                  THEN IF float(response.data.data.priceUsd).raised
                       THEN UnexpectedText(query, "ValueError")
                       ELSE PriceText(query, float(response.data.data.priceUsd).num, "CoinCap")
                  ELSE "Could not find price for " \o Upper(query) \o " on either API. "
                       \o "Make sure you're using a valid cryptocurrency symbol.")
            /\ pc' = "returned"
    /\ CryptoFrame

Errors == {"ClientError", "TimeoutError"}

NextCrypto ==
    \/ ImportRaise
    \/ \E e \in Errors : GeckoRaise(e)
    \/ \E r \in GeckoResponses(query) : GeckoRespond(r)
    \/ \E e \in Errors : CapRaise(e)
    \/ \E r \in CapResponses : CapRespond(r)

SpecCrypto == InitCrypto /\ [][NextCrypto]_vars

\* the call has returned a price
PriceReturned ==
    \E p \in {5, 50000}, api \in {"CoinGecko", "CoinCap"} : ret = Some(PriceText(query, p, api))

\* C29 (as claimed): get_crypto_price asks CoinGecko first and CoinCap only after
\* CoinGecko gave no price, and whenever it returns something else than a price
\* after its CoinGecko request failed, it has tried CoinCap before.
C29_FallbackBeforeError ==
    /\ http # <<>> => http[1].api = "CoinGecko"
    /\ Len(http) <= 2
    /\ Len(http) = 2 => http[2].api = "CoinCap"
    /\ (pc = "returned" /\ http # <<>> /\ ~ PriceReturned) => Len(http) = 2

====
